---- MODULE Spec2Model ----
(***************************************************************************)
(* Model of github-description-updater: the three scripts automate.py,     *)
(* automate_ollama.py (description mode) and github_summarizer.py (report  *)
(* mode).  Each script is one sequential process; the hosting service and  *)
(* the text-generation backend are the environment, whose answers are      *)
(* drawn from small sets at the step that makes the request.               *)
(*                                                                         *)
(* Text is a sequence of one-character strings; Optional[str] is a         *)
(* sequence of length 0 (None) or 1 (the text).                            *)
(***************************************************************************)
EXTENDS Integers, Sequences, FiniteSets, TLC

\* History variables: served (the pages the listing got), fetched (in report
\* mode, the value get_readme gave for each repository looked at), generated
\* (for each generation call: the repository's index, whether the backend
\* failed, the text returned),
\* patches (the PATCH requests sent, with their answers), log (the requests
\* and sleeps of the run, in order) and last (what the environment answered
\* to the step just taken).  env is the process environment as os.getenv
\* sees it, config the module globals the script loads from it.
VARIABLES script, pc, page, repos, served, i, readme, fetched, languages,
          new_description, generated, patches, repos_with_readme,
          report, files, log, last, env, config

vars == <<script, pc, page, repos, served, i, readme, fetched, languages,
          new_description, generated, patches, repos_with_readme,
          report, files, log, last, env, config>>

\* ------------------------------------------------------------------ bounds
MaxRepos == 2
MaxPageLen == 2
Slack == 2

\* --------------------------------------------------------------- constants
DESC_LIMIT == 120
DESC_KEEP == 117
SLEEP_SECONDS == 2

Scripts == {"automate", "automate_ollama", "github_summarizer"}
Describers == {"automate", "automate_ollama"}

None == <<>>
Some(s) == <<s>>

Min(a, b) == IF a < b THEN a ELSE b

\* ------------------------------------------------------------ text helpers
\* str.strip()/rstrip() with no argument remove ASCII whitespace.
IsSpace(c) == c \in {" ", "\n", "\t"}

\* the text without its trailing whitespace
RStrip(s) ==
    LET keep == {j \in 1..Len(s) : ~IsSpace(s[j])}
    IN  IF keep = {} THEN <<>>
        ELSE SubSeq(s, 1, CHOOSE j \in keep : \A k \in keep : k <= j)

\* the text without its leading whitespace
LStrip(s) ==
    LET keep == {j \in 1..Len(s) : ~IsSpace(s[j])}
    IN  IF keep = {} THEN <<>>
        ELSE SubSeq(s, CHOOSE j \in keep : \A k \in keep : j <= k, Len(s))

Strip(s) == RStrip(LStrip(s))

\* s.split("\n")[0]
FirstLine(s) ==
    LET breaks == {j \in 1..Len(s) : s[j] = "\n"}
    IN  IF breaks = {} THEN s
        ELSE SubSeq(s, 1, (CHOOSE j \in breaks : \A k \in breaks : j <= k) - 1)

\* s[:n]
Take(s, n) == SubSeq(s, 1, Min(n, Len(s)))

Ellipsis == <<".", ".", ".">>

\* Faulty variant of Truncate: the prefix keeps its trailing whitespace.
TruncateNoRstrip(d) ==
    IF Len(d) > DESC_LIMIT THEN Take(d, DESC_KEEP) \o Ellipsis ELSE d

\* if len(description) > 120: description = description[:117].rstrip() + "..."
Truncate(d) ==
    IF Len(d) > DESC_LIMIT THEN RStrip(Take(d, DESC_KEEP)) \o Ellipsis ELSE d

\* The success path of generate_description, from the backend's text to the
\* returned description.  automate.py strips only; automate_ollama.py strips
\* and keeps the first line.
PostProcess(s, text) ==
    IF s = "automate" THEN Truncate(Strip(text))
    ELSE Truncate(FirstLine(Strip(text)))

\* ------------------------------------------------------------------ base64
B64Alphabet ==
    <<"A","B","C","D","E","F","G","H","I","J","K","L","M","N","O","P",
      "Q","R","S","T","U","V","W","X","Y","Z","a","b","c","d","e","f",
      "g","h","i","j","k","l","m","n","o","p","q","r","s","t","u","v",
      "w","x","y","z","0","1","2","3","4","5","6","7","8","9","+","/">>

IsB64Char(c) == \E k \in 1..64 : B64Alphabet[k] = c

B64Value(c) == (CHOOSE k \in 1..64 : B64Alphabet[k] = c) - 1

\* base64.b64decode without validate discards every character outside the
\* alphabet (the service wraps the payload with newlines); "=" is padding.
RECURSIVE B64Sextets(_)
B64Sextets(s) ==
    IF s = <<>> THEN <<>>
    ELSE IF IsB64Char(s[1]) THEN <<B64Value(s[1])>> \o B64Sextets(Tail(s))
    ELSE B64Sextets(Tail(s))

RECURSIVE B64Bytes(_)
B64Bytes(v) ==
    IF Len(v) >= 4 THEN
        << v[1] * 4 + v[2] \div 16,
           (v[2] % 16) * 16 + v[3] \div 4,
           (v[3] % 4) * 64 + v[4] >> \o B64Bytes(SubSeq(v, 5, Len(v)))
    ELSE IF Len(v) = 3 THEN
        << v[1] * 4 + v[2] \div 16, (v[2] % 16) * 16 + v[3] \div 4 >>
    ELSE IF Len(v) = 2 THEN << v[1] * 4 + v[2] \div 16 >>
    ELSE <<>>

b64decode(s) == B64Bytes(B64Sextets(s))

Chr(b) ==
    IF b = 10 THEN "\n" ELSE IF b = 32 THEN " "
    ELSE IF b = 97 THEN "a" ELSE IF b = 98 THEN "b" ELSE "?"

\* bytes.decode("utf-8", errors="ignore"): an ASCII byte is its character,
\* a byte that cannot occur in UTF-8 is dropped.  The payloads drawn below
\* hold ASCII bytes and the byte 255 only.
RECURSIVE Utf8DecodeIgnore(_)
Utf8DecodeIgnore(bs) ==
    IF bs = <<>> THEN <<>>
    ELSE IF bs[1] < 128 THEN <<Chr(bs[1])>> \o Utf8DecodeIgnore(Tail(bs))
    ELSE Utf8DecodeIgnore(Tail(bs))

\* --------------------------------------------------- the service's answers
Names == <<"alpha", "beta", "gamma", "delta">>

\* current description of a listed repository: null, "", "ab"
Descriptions == {None, Some(<<>>), Some(<<"a", "b">>)}

\* The k-th repository the service lists.  Description mode reads the
\* description, report mode the counters and the update time.
RepoDomain(s, k) ==
    IF s \in Describers
    THEN [name : {Names[k]}, description : Descriptions,
          stargazers_count : {0}, forks_count : {0}, updated_at : {1}]
    ELSE { [name |-> Names[k], description |-> None,
            stargazers_count |-> c[1], forks_count |-> c[2],
            updated_at |-> c[3]] :
              c \in {<<0, 2, 1>>, <<0, 0, 2>>, <<1, 2, 1>>, <<1, 1, 2>>} }

\* A page of n entries continuing a listing of k entries.
RECURSIVE PageData(_, _, _)
PageData(s, k, n) ==
    IF n = 0 THEN {<<>>}
    ELSE {p \o <<r>> : p \in PageData(s, k, n - 1), r \in RepoDomain(s, k + n)}

\* raise_for_status raises for the 4xx and 5xx statuses.
RaisesForStatus(st) == st >= 400

ListStatuses == {200, 500}
PatchStatuses == {200, 403, 422}
LanguageStatuses == {200, 403, 500}

\* "content" of a readme answer: "", "YWI=\n" (ab), "IA==" (one blank),
\* "/w==" (the byte 255, no text).
ReadmeContents ==
    { <<>>, <<"Y", "W", "I", "=", "\n">>, <<"I", "A", "=", "=">>,
      <<"/", "w", "=", "=">> }

ReadmeAnswers ==
    [status : {404, 500}, content : {<<>>}, encoding : {"base64"}]
    \cup [status : {200}, content : ReadmeContents, encoding : {"base64"}]
    \cup [status : {200}, content : {<<>>, <<"I", "A", "=", "=">>},
          encoding : {"none"}]

\* language -> byte count, in the order the service lists the keys
LanguageMaps ==
    { <<>>,
      <<[lang |-> "C", bytes |-> 1], [lang |-> "Go", bytes |-> 3],
        [lang |-> "Rust", bytes |-> 1], [lang |-> "Shell", bytes |-> 2]>> }

\* what the generation backend hands back
BackendTexts == { <<>>, <<"a", "b">>, <<" ", "a", "\n", "b">> }

BackendOutcomes(s) ==
    [kind : {"ok"}, text : BackendTexts]
    \cup [kind : (IF s = "automate" THEN {"exception"}
                  ELSE {"nonzero", "timeout", "exception"}), text : {<<>>}]

\* Faulty variant of get_readme: every answer but 404 is decoded.
get_readme_iff404(a) ==
    IF a.status = 404 THEN None
    ELSE Some(Utf8DecodeIgnore(b64decode(a.content)))

\* ------------------------------------------------------------ get_readme
\* The value get_readme returns for an answer it returns from.
get_readme(a) ==
    IF a.status = 404 THEN None
    ELSE IF a.content # <<>> /\ a.encoding = "base64"
         THEN Some(Utf8DecodeIgnore(b64decode(a.content)))
    ELSE None

\* "if readme:" - None and "" are both false
Truthy(opt) == opt # None /\ opt[1] # <<>>

\* Faulty variant of generate_description: a failing backend yields a message, not "".
generate_description_message(s, out) ==
    IF out.kind = "ok" THEN PostProcess(s, out.text) ELSE <<"e", "r", "r">>

\* ---------------------------------------------------- generate_description
generate_description(s, out) ==
    IF out.kind = "ok" THEN PostProcess(s, out.text) ELSE <<>>

\* repo.get("description") or ""
CurrentDescription(r) ==
    IF r.description = None THEN <<>> ELSE r.description[1]

\* Faulty variant of ShouldUpdate: the emptiness test is missing.
ShouldUpdateAlways(new, cur) == new # cur

\* if new_description and new_description != current_description
ShouldUpdate(new, cur) == new # <<>> /\ new # cur

\* ------------------------------------------------- generate_project_summary
RECURSIVE InsertLang(_, _)
InsertLang(x, s) ==
    IF s = <<>> THEN <<x>>
    ELSE IF s[1].bytes >= x.bytes THEN <<s[1]>> \o InsertLang(x, Tail(s))
    ELSE <<x>> \o s

\* sorted(languages.items(), key=lambda x: x[1], reverse=True): stable
RECURSIVE SortLangs(_)
SortLangs(m) ==
    IF m = <<>> THEN <<>>
    ELSE InsertLang(m[Len(m)], SortLangs(SubSeq(m, 1, Len(m) - 1)))

\* Faulty variant of TopLanguages: the [:3] slice is missing.
TopLanguagesAll(m) == SortLangs(m)

TopLanguages(m) == Take(SortLangs(m), 3)

RECURSIVE Join(_)
Join(names) ==
    IF names = <<>> THEN <<>>
    ELSE IF Len(names) = 1 THEN names
    ELSE <<names[1], ", ">> \o Join(Tail(names))

LangInfo(m) ==
    IF TopLanguages(m) = <<>> THEN <<"Unknown">>
    ELSE Join([k \in 1..Len(TopLanguages(m)) |-> TopLanguages(m)[k].lang])

Fallback(name, m) ==
    <<"Repository: ", name, "\nTechnologies: ">> \o LangInfo(m)
        \o <<"\n*Summary generation failed*">>

generate_project_summary(name, m, out) ==
    IF out.kind = "ok" THEN Strip(out.text) ELSE Fallback(name, m)

\* ------------------------------------------------ generate_markdown_report
\* Faulty variant of KeyGE: the key is the star count alone.
KeyGEStarsOnly(a, b) ==
    a.stargazers_count >= b.stargazers_count

\* key=lambda x: (x.get('stargazers_count', 0), x['updated_at'])
KeyGE(a, b) ==
    \/ a.stargazers_count > b.stargazers_count
    \/ /\ a.stargazers_count = b.stargazers_count
       /\ a.updated_at >= b.updated_at

RECURSIVE InsertRepo(_, _)
InsertRepo(x, s) ==
    IF s = <<>> THEN <<x>>
    ELSE IF KeyGE(s[1], x) THEN <<s[1]>> \o InsertRepo(x, Tail(s))
    ELSE <<x>> \o s

\* repos_with_readme.sort(key=..., reverse=True): stable
RECURSIVE SortRepos(_)
SortRepos(s) ==
    IF s = <<>> THEN <<>>
    ELSE InsertRepo(s[Len(s)], SortRepos(SubSeq(s, 1, Len(s) - 1)))

RECURSIVE SumStars(_)
SumStars(ps) ==
    IF ps = <<>> THEN 0 ELSE ps[1].stargazers_count + SumStars(Tail(ps))

RECURSIVE SumForks(_)
SumForks(ps) ==
    IF ps = <<>> THEN 0 ELSE ps[1].forks_count + SumForks(Tail(ps))

Section(k, p) ==
    [number |-> k, name |-> p.name,
     badges |-> [j \in 1..Min(5, Len(p.languages)) |-> p.languages[j].lang],
     stargazers_count |-> p.stargazers_count,
     updated_at |-> p.updated_at,
     ai_summary |-> p.ai_summary]

\* Faulty variant of generate_markdown_report: the count starts at one.
generate_markdown_report_from_one(projects) ==
    [with_documentation |-> Len(projects) + 1,
     documented |-> Len(projects) + 1,
     total_stars |-> SumStars(projects),
     total_forks |-> SumForks(projects),
     sections |-> [k \in 1..Len(projects) |-> Section(k, projects[k])]]

\* with_documentation is the "Total Projects with Documentation" line,
\* documented the "Total Documented Projects" row of the table
generate_markdown_report(projects) ==
    [with_documentation |-> Len(projects),
     documented |-> Len(projects),
     total_stars |-> SumStars(projects),
     total_forks |-> SumForks(projects),
     sections |-> [k \in 1..Len(projects) |-> Section(k, projects[k])]]

NoReport == [with_documentation |-> 0, documented |-> 0, total_stars |-> 0,
             total_forks |-> 0, sections |-> <<>>]

\* ---------------------------------------------------------------- the run
Event(op, arg) == [op |-> op, arg |-> arg]

Answer(op, st, kind, text) ==
    [op |-> op, status |-> st, kind |-> kind, text |-> text]

NoAnswer == Answer("none", 0, "none", <<>>)

\* where main goes once the repository at index k - 1 is finished
AfterRepo(k) ==
    IF k <= Len(repos) THEN "readme"
    ELSE IF script = "github_summarizer" THEN "report" ELSE "done"

\* ------------------------------------------------- module-level start-up
\* An environment variable is unset (None), set to "" or set to a value.
EnvValues == {None, Some(""), Some("value")}

EnvDomain ==
    [GITHUB_TOKEN : EnvValues, GITHUB_USERNAME : EnvValues,
     OPENAI_API_KEY : EnvValues, OLLAMA_MODEL : EnvValues]

FullEnv ==
    [GITHUB_TOKEN |-> Some("value"), GITHUB_USERNAME |-> Some("value"),
     OPENAI_API_KEY |-> Some("value"), OLLAMA_MODEL |-> None]

\* the environments the whole run is explored under
RunEnvs == {FullEnv, [FullEnv EXCEPT !.GITHUB_TOKEN = None]}

DEFAULT_MODEL == "llama3.2:latest"

\* os.getenv(name) / os.getenv(name, default); automate.py reads the API
\* key and no model name, the other two scripts the model name and no key
LoadConfig(s, e) ==
    [GITHUB_TOKEN |-> e.GITHUB_TOKEN,
     GITHUB_USERNAME |-> e.GITHUB_USERNAME,
     OPENAI_API_KEY |-> IF s = "automate" THEN e.OPENAI_API_KEY ELSE None,
     OLLAMA_MODEL |-> IF s = "automate" THEN None
                      ELSE IF e.OLLAMA_MODEL = None THEN Some(DEFAULT_MODEL)
                      ELSE e.OLLAMA_MODEL]

NotLoaded ==
    [GITHUB_TOKEN |-> None, GITHUB_USERNAME |-> None,
     OPENAI_API_KEY |-> None, OLLAMA_MODEL |-> None]

\* truth value of an Optional[str] global: None and "" are false
IsSet(v) == v # None /\ v # Some("")

\* Faulty variant of Required: automate.py checks the two account settings only.
RequiredAccountOnly(s) == {"GITHUB_TOKEN", "GITHUB_USERNAME"}

\* the globals listed in "if not all([...])"
Required(s) ==
    IF s = "automate"
    THEN {"GITHUB_TOKEN", "OPENAI_API_KEY", "GITHUB_USERNAME"}
    ELSE {"GITHUB_TOKEN", "GITHUB_USERNAME"}

\* all([...]) over the required globals
ConfigComplete(s, c) == \A name \in Required(s) : IsSet(c[name])

Init ==
    /\ script \in Scripts
    /\ pc = "startup"
    /\ env \in RunEnvs
    /\ config = NotLoaded
    /\ page = 1
    /\ repos = <<>>
    /\ served = <<>>
    /\ i = 0
    /\ readme = None
    /\ fetched = <<>>
    /\ languages = <<>>
    /\ new_description = <<>>
    /\ generated = <<>>
    /\ patches = <<>>
    /\ repos_with_readme = <<>>
    /\ report = NoReport
    /\ files = <<>>
    /\ log = <<>>
    /\ last = NoAnswer

\* Faulty variant of ListPageFails: the failed page is requested again.
ListPageRetries ==
    /\ pc = "list"
    /\ \E st \in ListStatuses :
        /\ RaisesForStatus(st)
        /\ served' = Append(served, [page |-> page, status |-> st, data |-> <<>>])
        /\ last' = Answer("list", st, "none", <<>>)
    /\ log' = Append(log, Event("list", page))
    /\ pc' = "list"
    /\ UNCHANGED <<env, config, script, page, repos, i, readme, fetched, languages,
                   new_description, generated, patches, repos_with_readme,
                   report, files>>

\* the module-level code: load the globals, raise if a required one is
\* missing, otherwise go on to main()
Startup ==
    /\ pc = "startup"
    /\ config' = LoadConfig(script, env)
    /\ pc' = IF ConfigComplete(script, config') THEN "list" ELSE "config_error"
    /\ UNCHANGED <<env, script, page, repos, served, i, readme, fetched,
                   languages, new_description, generated, patches,
                   repos_with_readme, report, files, log, last>>

\* list_public_repos, one turn of its while loop: the request fails and
\* raise_for_status raises out of main
ListPageFails ==
    /\ pc = "list"
    /\ \E st \in ListStatuses :
        /\ RaisesForStatus(st)
        /\ served' = Append(served, [page |-> page, status |-> st, data |-> <<>>])
        /\ last' = Answer("list", st, "none", <<>>)
    /\ log' = Append(log, Event("list", page))
    /\ pc' = "aborted"
    /\ UNCHANGED <<env, config, script, page, repos, i, readme, fetched, languages,
                   new_description, generated, patches, repos_with_readme,
                   report, files>>

\* Faulty variant of ListPage: the page number advances by two.
ListPageSkip ==
    /\ pc = "list"
    /\ \E st \in ListStatuses, n \in 0..Min(MaxPageLen, MaxRepos - Len(repos)) :
        \E data \in PageData(script, Len(repos), n) :
            /\ ~RaisesForStatus(st)
            /\ served' = Append(served, [page |-> page, status |-> st, data |-> data])
            /\ last' = Answer("list", st, "none", <<>>)
            /\ IF data = <<>>
               THEN /\ i' = 1
                    /\ pc' = AfterRepo(1)
                    /\ UNCHANGED <<repos, page>>
               ELSE /\ repos' = repos \o data
                    /\ page' = page + 2
                    /\ UNCHANGED <<i, pc>>
    /\ log' = Append(log, Event("list", page))
    /\ UNCHANGED <<env, config, script, readme, fetched, languages, new_description,
                   generated, patches, repos_with_readme, report, files>>

\* list_public_repos, one turn of its while loop: the request is answered;
\* an empty page ends the loop and main enters its for loop
ListPage ==
    /\ pc = "list"
    /\ \E st \in ListStatuses, n \in 0..Min(MaxPageLen, MaxRepos - Len(repos)) :
        \E data \in PageData(script, Len(repos), n) :
            /\ ~RaisesForStatus(st)
            /\ served' = Append(served, [page |-> page, status |-> st, data |-> data])
            /\ last' = Answer("list", st, "none", <<>>)
            /\ IF data = <<>>
               THEN /\ i' = 1
                    /\ pc' = AfterRepo(1)
                    /\ UNCHANGED <<repos, page>>
               ELSE /\ repos' = repos \o data
                    /\ page' = page + 1
                    /\ UNCHANGED <<i, pc>>
    /\ log' = Append(log, Event("list", page))
    /\ UNCHANGED <<env, config, script, readme, fetched, languages, new_description,
                   generated, patches, repos_with_readme, report, files>>

\* Faulty variant of GetReadmeFails: main catches the failure and goes on.
GetReadmeFailsIsolated ==
    /\ pc = "readme"
    /\ \E a \in ReadmeAnswers :
        /\ a.status # 404 /\ RaisesForStatus(a.status)
        /\ last' = Answer("readme", a.status, "none", <<>>)
    /\ log' = Append(log, Event("readme", i))
    /\ i' = i + 1
    /\ pc' = AfterRepo(i + 1)
    /\ UNCHANGED <<env, config, script, page, repos, served, readme, fetched,
                   languages, new_description, generated, patches,
                   repos_with_readme, report, files>>

\* get_readme raises: the exception leaves main
GetReadmeFails ==
    /\ pc = "readme"
    /\ \E a \in ReadmeAnswers :
        /\ a.status # 404 /\ RaisesForStatus(a.status)
        /\ last' = Answer("readme", a.status, "none", <<>>)
    /\ log' = Append(log, Event("readme", i))
    /\ pc' = "aborted"
    /\ UNCHANGED <<env, config, script, page, repos, served, i, readme, fetched, languages,
                   new_description, generated, patches, repos_with_readme,
                   report, files>>

\* Faulty variant of GetReadme: report mode tests "is not None" instead of truthiness.
GetReadmeKeepAll ==
    /\ pc = "readme"
    /\ \E a \in ReadmeAnswers :
        /\ a.status = 404 \/ ~RaisesForStatus(a.status)
        /\ readme' = get_readme(a)
        /\ last' = Answer("readme", a.status, a.encoding, a.content)
    /\ log' = Append(log, Event("readme", i))
    /\ fetched' = IF script \in Describers THEN fetched
                  ELSE Append(fetched, readme')
    /\ IF script \in Describers
       THEN pc' = "generate" /\ UNCHANGED i
       ELSE IF readme' # None
       THEN pc' = "languages" /\ UNCHANGED i
       ELSE i' = i + 1 /\ pc' = AfterRepo(i + 1)
    /\ UNCHANGED <<env, config, script, page, repos, served, languages, new_description,
                   generated, patches, repos_with_readme, report, files>>

\* readme = get_readme(GITHUB_USERNAME, repo_name); in github_summarizer.main
\* also the "if readme:" that skips the repository
GetReadme ==
    /\ pc = "readme"
    /\ \E a \in ReadmeAnswers :
        /\ a.status = 404 \/ ~RaisesForStatus(a.status)
        /\ readme' = get_readme(a)
        /\ last' = Answer("readme", a.status, a.encoding, a.content)
    /\ log' = Append(log, Event("readme", i))
    /\ fetched' = IF script \in Describers THEN fetched
                  ELSE Append(fetched, readme')
    /\ IF script \in Describers
       THEN pc' = "generate" /\ UNCHANGED i
       ELSE IF Truthy(readme')
       THEN pc' = "languages" /\ UNCHANGED i
       ELSE i' = i + 1 /\ pc' = AfterRepo(i + 1)
    /\ UNCHANGED <<env, config, script, page, repos, served, languages, new_description,
                   generated, patches, repos_with_readme, report, files>>

\* new_description = generate_description(repo_name, readme) and the write
\* decision of main
GenerateDescription ==
    /\ pc = "generate"
    /\ \E out \in BackendOutcomes(script) :
        /\ new_description' = generate_description(script, out)
        /\ generated' = Append(generated,
               [repo |-> i, failed |-> out.kind # "ok", text |-> new_description'])
        /\ last' = Answer("generate", 0, out.kind, out.text)
    /\ log' = Append(log, Event("generate", i))
    /\ IF ShouldUpdate(new_description', CurrentDescription(repos[i]))
       THEN pc' = "update" /\ UNCHANGED i
       ELSE i' = i + 1 /\ pc' = AfterRepo(i + 1)
    /\ UNCHANGED <<env, config, script, page, repos, served, readme, fetched, languages,
                   patches, repos_with_readme, report, files>>

\* Faulty variant of UpdateRepoDescription: a status other than 200 ends the run.
UpdateRepoDescriptionFatal ==
    /\ pc = "update"
    /\ \E st \in PatchStatuses :
        /\ patches' = Append(patches,
               [repo |-> i, payload |-> [description |-> new_description],
                status |-> st])
        /\ last' = Answer("patch", st, "none", <<>>)
        /\ pc' = IF st = 200 THEN "sleep" ELSE "aborted"
    /\ log' = Append(log, Event("patch", i))
    /\ UNCHANGED <<env, config, script, page, repos, served, i, readme, fetched, languages,
                   new_description, generated, repos_with_readme, report,
                   files>>

\* update_repo_description: the PATCH request and its answer
UpdateRepoDescription ==
    /\ pc = "update"
    /\ \E st \in PatchStatuses :
        /\ patches' = Append(patches,
               [repo |-> i, payload |-> [description |-> new_description],
                status |-> st])
        /\ last' = Answer("patch", st, "none", <<>>)
    /\ log' = Append(log, Event("patch", i))
    /\ pc' = "sleep"
    /\ UNCHANGED <<env, config, script, page, repos, served, i, readme, fetched, languages,
                   new_description, generated, repos_with_readme, report,
                   files>>

\* Faulty variant of Sleep: the sleep is missing.
SleepSkipped ==
    /\ pc = "sleep"
    /\ last' = NoAnswer
    /\ i' = i + 1
    /\ pc' = AfterRepo(i + 1)
    /\ UNCHANGED <<env, config, script, page, repos, served, readme, fetched, languages,
                   new_description, generated, patches, repos_with_readme,
                   report, files, log>>

\* time.sleep(2), then the next turn of the for loop
Sleep ==
    /\ pc = "sleep"
    /\ log' = Append(log, Event("sleep", SLEEP_SECONDS))
    /\ last' = NoAnswer
    /\ i' = i + 1
    /\ pc' = AfterRepo(i + 1)
    /\ UNCHANGED <<env, config, script, page, repos, served, readme, fetched, languages,
                   new_description, generated, patches, repos_with_readme,
                   report, files>>

\* Faulty variant of get_repo_languages: the status is not looked at.
get_repo_languages_any(st, m) == m

\* get_repo_languages: return response.json() on 200, {} otherwise
get_repo_languages(st, m) == IF st = 200 THEN m ELSE <<>>

\* languages = get_repo_languages(GITHUB_USERNAME, repo_name)
GetRepoLanguages ==
    /\ pc = "languages"
    /\ \E st \in LanguageStatuses, m \in LanguageMaps :
        /\ languages' = get_repo_languages(st, m)
        /\ last' = Answer("languages", st, "none", m)
    /\ log' = Append(log, Event("languages", i))
    /\ pc' = "summarize"
    /\ UNCHANGED <<env, config, script, page, repos, served, i, readme, fetched,
                   new_description, generated, patches, repos_with_readme,
                   report, files>>

\* the record main appends: the listed repository with the three keys added
Project(r, m, summary, text) ==
    [name |-> r.name,
     stargazers_count |-> r.stargazers_count,
     forks_count |-> r.forks_count,
     updated_at |-> r.updated_at,
     languages |-> m,
     ai_summary |-> summary,
     readme_content |-> text]

\* ai_summary = generate_project_summary(...); repos_with_readme.append(repo)
GenerateProjectSummary ==
    /\ pc = "summarize"
    /\ \E out \in BackendOutcomes(script) :
        /\ generated' = Append(generated,
               [repo |-> i, failed |-> out.kind # "ok",
                text |-> generate_project_summary(repos[i].name, languages, out)])
        /\ repos_with_readme' = Append(repos_with_readme,
               Project(repos[i], languages,
                   generate_project_summary(repos[i].name, languages, out),
                   readme[1]))
        /\ last' = Answer("generate", 0, out.kind, out.text)
    /\ log' = Append(log, Event("generate", i))
    /\ pc' = "sleep"
    /\ UNCHANGED <<env, config, script, page, repos, served, i, readme, fetched, languages,
                   new_description, patches, report, files>>

\* Faulty variant of WriteReport: the file is written whether or not any
\* repository was kept.
WriteReportAlways ==
    /\ pc = "report"
    /\ repos_with_readme' = SortRepos(repos_with_readme)
    /\ report' = generate_markdown_report(repos_with_readme')
    /\ files' = Append(files, report')
    /\ log' = Append(log, Event("write_file", Len(files) + 1))
    /\ last' = NoAnswer
    /\ pc' = "done"
    /\ UNCHANGED <<env, config, script, page, repos, served, i, readme, fetched, languages,
                   new_description, generated, patches>>

\* the end of github_summarizer.main: "if repos_with_readme:" sort, render
\* and write the file
WriteReport ==
    /\ pc = "report"
    /\ repos_with_readme # <<>>
    /\ repos_with_readme' = SortRepos(repos_with_readme)
    /\ report' = generate_markdown_report(repos_with_readme')
    /\ files' = Append(files, report')
    /\ log' = Append(log, Event("write_file", Len(files) + 1))
    /\ last' = NoAnswer
    /\ pc' = "done"
    /\ UNCHANGED <<env, config, script, page, repos, served, i, readme, fetched, languages,
                   new_description, generated, patches>>

\* else: print("No repositories with README files found.")
SkipReport ==
    /\ pc = "report"
    /\ repos_with_readme = <<>>
    /\ last' = NoAnswer
    /\ pc' = "done"
    /\ UNCHANGED <<env, config, script, page, repos, served, i, readme, fetched, languages,
                   new_description, generated, patches, repos_with_readme,
                   report, files, log>>

Next ==
    \/ Startup
    \/ ListPageFails
    \/ ListPage
    \/ GetReadmeFails
    \/ GetReadme
    \/ GenerateDescription
    \/ UpdateRepoDescription
    \/ Sleep
    \/ GetRepoLanguages
    \/ GenerateProjectSummary
    \/ WriteReport
    \/ SkipReport

Spec == Init /\ [][Next]_vars

\* -------------------------------------------- generate_description alone
\* The backend's output for one call of generate_description: n characters,
\* "a" everywhere but for an optional leading blank, an optional line break
\* at position nl, and w blanks that end at position e.
OutputText(n, lead, nl, w, e) ==
    [j \in 1..n |->
        IF lead /\ j = 1 THEN " "
        ELSE IF j = nl THEN "\n"
        ELSE IF j > e - w /\ j <= e THEN " "
        ELSE "a"]

LongOutputs ==
    { OutputText(n, lead, nl, w, e) :
        n \in (DESC_KEEP - Slack)..(DESC_LIMIT + Slack),
        lead \in BOOLEAN,
        nl \in {0, DESC_KEEP + 2, DESC_LIMIT + 2},
        w \in 0..Slack,
        e \in {DESC_KEEP, DESC_KEEP + 1} }

InitPost ==
    /\ script \in Describers
    /\ pc = "generate"
    /\ env = FullEnv
    /\ config = LoadConfig(script, FullEnv)
    /\ page = 1
    /\ repos = <<>>
    /\ served = <<>>
    /\ i = 0
    /\ readme = None
    /\ fetched = <<>>
    /\ languages = <<>>
    /\ new_description = <<>>
    /\ generated = <<>>
    /\ patches = <<>>
    /\ repos_with_readme = <<>>
    /\ report = NoReport
    /\ files = <<>>
    /\ log = <<>>
    /\ last \in { Answer("backend", 0, "ok", t) : t \in LongOutputs }

\* one call of generate_description on the output the backend gave
GenerateOnly ==
    /\ pc = "generate"
    /\ last.op = "backend"
    /\ new_description' =
           generate_description(script, [kind |-> last.kind, text |-> last.text])
    /\ pc' = "done"
    /\ UNCHANGED <<env, config, script, page, repos, served, i, readme, fetched, languages,
                   generated, patches, repos_with_readme, report, files, log,
                   last>>

NextPost == GenerateOnly

SpecPost == InitPost /\ [][NextPost]_vars

\* ----------------------------------------- generate_markdown_report alone
\* lists of n projects as main builds them
RECURSIVE ProjectLists(_)
ProjectLists(n) ==
    IF n = 0 THEN {<<>>}
    ELSE {ps \o <<Project(r, m, <<"a", "b">>, <<"a", "b">>)>> :
            ps \in ProjectLists(n - 1),
            r \in RepoDomain("github_summarizer", n),
            m \in LanguageMaps}

InitReport ==
    /\ script = "github_summarizer"
    /\ pc = "render"
    /\ env = FullEnv
    /\ config = LoadConfig(script, FullEnv)
    /\ page = 1
    /\ repos = <<>>
    /\ served = <<>>
    /\ i = 0
    /\ readme = None
    /\ fetched = <<>>
    /\ languages = <<>>
    /\ new_description = <<>>
    /\ generated = <<>>
    /\ patches = <<>>
    /\ repos_with_readme \in UNION {ProjectLists(n) : n \in 0..MaxRepos}
    /\ report = NoReport
    /\ files = <<>>
    /\ log = <<>>
    /\ last = NoAnswer

\* one call of generate_markdown_report on a list of projects
RenderOnly ==
    /\ pc = "render"
    /\ report' = generate_markdown_report(repos_with_readme)
    /\ pc' = "rendered"
    /\ UNCHANGED <<env, config, script, page, repos, served, i, readme,
                   fetched, languages, new_description, generated, patches,
                   repos_with_readme, files, log, last>>

NextReport == RenderOnly

SpecReport == InitReport /\ [][NextReport]_vars

\* ------------------------------------- start-up under every environment
InitStartup ==
    /\ script \in Scripts
    /\ pc = "startup"
    /\ env \in EnvDomain
    /\ config = NotLoaded
    /\ page = 1
    /\ repos = <<>>
    /\ served = <<>>
    /\ i = 0
    /\ readme = None
    /\ fetched = <<>>
    /\ languages = <<>>
    /\ new_description = <<>>
    /\ generated = <<>>
    /\ patches = <<>>
    /\ repos_with_readme = <<>>
    /\ report = NoReport
    /\ files = <<>>
    /\ log = <<>>
    /\ last = NoAnswer

\* the module-level code and the listing main() starts with
NextStartup ==
    \/ Startup
    \/ ListPageFails
    \/ ListPage

SpecStartup == InitStartup /\ [][NextStartup]_vars

\* ================================================================ claims
Last(s) == s[Len(s)]

InDescriptionMode == script \in Describers

InReportMode == script = "github_summarizer"

Written(k) == \E p \in 1..Len(patches) : patches[p].repo = k

\* C1: in description mode a description-update request is sent for a
\* repository if and only if the generated text is non-empty and differs from
\* the current description (null counting as ""); the payload is exactly
\* {"description": <generated text>}; empty generated text is never written.
C1_WriteDecision ==
    InDescriptionMode =>
        /\ \A k \in 1..Len(generated) :
            LET g == generated[k].text
                cur == IF repos[k].description = None THEN <<>>
                       ELSE repos[k].description[1]
            IN  /\ generated[k].repo = k
                /\ (Written(k) \/ (pc = "update" /\ i = k))
                       <=> (Len(g) > 0 /\ g # cur)
                /\ Len(g) = 0 => ~Written(k)
        /\ \A p \in 1..Len(patches) :
            /\ patches[p].repo \in 1..Len(generated)
            /\ patches[p].payload =
                   [description |-> generated[patches[p].repo].text]
            /\ \A q \in 1..Len(patches) : patches[q].repo = patches[p].repo => q = p

\* a run that wrote one repository and skipped another whose generated text
\* equals its current, non-empty description
C1_Witness ==
    /\ InDescriptionMode
    /\ pc = "done"
    /\ \E k \in 1..Len(generated) :
        /\ ~Written(k)
        /\ Len(generated[k].text) > 0
        /\ repos[k].description = Some(generated[k].text)
    /\ \E k \in 1..Len(generated) :
        Written(k) /\ repos[k].description = None

RECURSIVE Concat(_)
Concat(ps) == IF ps = <<>> THEN <<>> ELSE ps[1].data \o Concat(Tail(ps))

ListEvents == {p \in 1..Len(log) : log[p].op = "list"}

\* C2: list_public_repos requests pages 1, 2, 3, ... in increasing order,
\* none skipped or repeated, stops exactly at the first empty page and
\* returns the concatenation of the earlier pages in the order served.
C2_Pagination ==
    /\ \A k \in 1..Len(served) : served[k].page = k
    /\ ListEvents = 1..Len(served)
    /\ \A k \in 1..Len(served) : log[k] = [op |-> "list", arg |-> k]
    /\ \A k \in 1..(Len(served) - 1) : served[k].data # <<>>
    /\ pc = "list" => (served = <<>> \/ Last(served).data # <<>>)
    /\ pc \notin {"startup", "config_error", "list", "aborted"}
           \/ (pc = "aborted" /\ i > 0) =>
        /\ served # <<>>
        /\ Last(served).data = <<>>
        /\ Last(served).status < 400
        /\ repos = Concat(served)

\* a listing of two non-empty pages and the empty one, then the first fetch
C2_Witness ==
    /\ Len(served) = 3
    /\ served[1].data # <<>> /\ served[2].data # <<>>
    /\ Len(repos) = 2
    /\ Len(log) > 3

\* the backend's output as generate_description has cleaned it before the
\* length test: stripped, and in automate_ollama.py cut to its first line
Cleaned == IF script = "automate" THEN Strip(last.text)
           ELSE FirstLine(Strip(last.text))

PostProcessed == pc = "done" /\ last.op = "backend"

\* C3 as stated, read on the cleaned text d: d longer than 120 characters
\* comes back as its first 117 characters followed by "...", 120 characters
\* in all; d of at most 120 characters comes back unchanged.
C3_Original ==
    PostProcessed =>
        IF Len(Cleaned) > DESC_LIMIT
        THEN /\ new_description = SubSeq(Cleaned, 1, DESC_KEEP) \o <<".", ".", ".">>
             /\ Len(new_description) = DESC_LIMIT
        ELSE new_description = Cleaned

\* C3 amended: with d the stripped output (in automate_ollama.py its first
\* line), if d is longer than 120 characters the result is the first 117
\* characters of d without their trailing whitespace followed by "...", of
\* length at most 120 and exactly 120 when the 117th character of d is not
\* whitespace; if d has at most 120 characters the result is d.
C3_Truncation ==
    PostProcessed =>
        LET d == Cleaned
            r == new_description
        IN  IF Len(d) > DESC_LIMIT
            THEN /\ \E m \in 1..DESC_KEEP :
                       /\ r = SubSeq(d, 1, m) \o <<".", ".", ".">>
                       /\ ~IsSpace(d[m])
                       /\ \A j \in (m + 1)..DESC_KEEP : IsSpace(d[j])
                 /\ Len(r) <= DESC_LIMIT
                 /\ ~IsSpace(d[DESC_KEEP]) => Len(r) = DESC_LIMIT
            ELSE r = d

\* a long output with a blank at position 117: the result is shorter than 120
C3_Witness ==
    /\ PostProcessed
    /\ Len(Cleaned) > DESC_LIMIT
    /\ IsSpace(Cleaned[DESC_KEEP])
    /\ Len(new_description) < DESC_LIMIT

ReadmeReturned == last.op = "readme" /\ pc # "aborted"

\* C4 as stated: get_readme returns None if and only if the service answers
\* 404; every non-404 answer it returns from yields text.
C4_Original ==
    ReadmeReturned => (readme = None <=> last.status = 404)

\* C4 amended: get_readme returns None for every 404 and also for an answer
\* it returns from whose content is empty or whose encoding is not base64;
\* every other answer it returns from yields text.
C4_Readme ==
    ReadmeReturned =>
        /\ last.status = 404 => readme = None
        /\ readme = None <=>
               \/ last.status = 404
               \/ last.text = <<>>
               \/ last.kind # "base64"

\* a 200 answer with non-empty content that is not base64: None is returned
C4_Witness ==
    /\ ReadmeReturned
    /\ last.status = 200
    /\ last.text # <<>>
    /\ last.kind = "none"
    /\ readme = None

Included(k) == fetched[k] # None /\ Len(fetched[k][1]) > 0

RECURSIVE IncludedSum(_, _)
IncludedSum(n, field) ==
    IF n = 0 THEN 0
    ELSE IncludedSum(n - 1, field)
         + (IF ~Included(n) THEN 0
            ELSE IF field = "stars" THEN repos[n].stargazers_count
            ELSE repos[n].forks_count)

ReportWritten == InReportMode /\ pc = "done" /\ files # <<>>

\* C5: in report mode the repositories that appear as sections of the report
\* are exactly those whose readme fetch returned non-empty text, and Total
\* Stars and Total Forks are the sums over those repositories only.
C5_ReportContent ==
    ReportWritten =>
        LET doc == files[1]
        IN  /\ Len(fetched) = Len(repos)
            /\ {doc.sections[k].name : k \in 1..Len(doc.sections)}
                   = {repos[k].name : k \in {j \in 1..Len(repos) : Included(j)}}
            /\ Len(doc.sections)
                   = Cardinality({j \in 1..Len(repos) : Included(j)})
            /\ doc.documented = Len(doc.sections)
            /\ doc.total_stars = IncludedSum(Len(repos), "stars")
            /\ doc.total_forks = IncludedSum(Len(repos), "forks")

\* a report with one section, written for a listing whose other repository
\* has stars and forks but gave an empty text
C5_Witness ==
    /\ ReportWritten
    /\ Len(files[1].sections) = 1
    /\ \E k \in 1..Len(repos) :
        /\ fetched[k] = Some(<<>>)
        /\ repos[k].stargazers_count > 0
        /\ repos[k].forks_count > 0

\* C6: in description mode a backend exception, timeout or non-zero exit
\* makes generate_description return "", no write is made for that
\* repository, and the batch goes on with the remaining repositories.
C6_BackendFailure ==
    InDescriptionMode =>
        /\ last.op = "generate" /\ last.kind \in {"exception", "timeout", "nonzero"} =>
            /\ new_description = <<>>
            /\ Last(generated).failed
            /\ i = Last(generated).repo + 1
            /\ pc = IF i <= Len(repos) THEN "readme" ELSE "done"
        /\ \A k \in 1..Len(generated) :
            generated[k].failed =>
                /\ generated[k].text = <<>>
                /\ ~Written(generated[k].repo)
                /\ pc = "done" => Len(generated) = Len(repos)

\* a finished run in which the backend failed for the first repository and a
\* later repository was written
C6_Witness ==
    /\ InDescriptionMode
    /\ pc = "done"
    /\ Len(generated) >= 2
    /\ generated[1].failed
    /\ \E k \in 2..Len(generated) : Written(k)

\* C7: a description update answered with a status other than 200 is not
\* fatal: update_repo_description returns normally and main goes on with the
\* next repository, so a failed write never prevents a later one.
C7_FailedWrite ==
    InDescriptionMode =>
        /\ last.op = "patch" => pc = "sleep" /\ Last(patches).status = last.status
        /\ pc = "aborted" => last.op \in {"list", "readme"}
        /\ \A p \in 1..Len(patches) :
            LET k == patches[p].repo
            IN  patches[p].status # 200 =>
                    /\ (pc = "done" => Len(generated) = Len(repos))
                    /\ (k < Len(repos) /\ (i > k + 1 \/ (i = k + 1 /\ pc # "readme"))
                           => \E e \in 1..Len(log) :
                                  log[e] = [op |-> "readme", arg |-> k + 1])

\* a finished run with a failed write followed by a successful write of a
\* later repository
C7_Witness ==
    /\ InDescriptionMode
    /\ pc = "done"
    /\ \E p, q \in 1..Len(patches) :
        /\ patches[p].status # 200
        /\ patches[q].status = 200
        /\ patches[p].repo < patches[q].repo

ListingFailed == \E k \in 1..Len(served) : served[k].status >= 400

\* C8: a page request answered with a non-success status ends the run at
\* once: the page is not requested again, no later page is requested, no
\* list is returned, and no readme is fetched, nothing generated or written.
C8_ListingFailure ==
    ListingFailed =>
        /\ \A k \in 1..Len(served) : served[k].status >= 400 => k = Len(served)
        /\ \A k \in 1..Len(served) : served[k].page = k
        /\ pc = "aborted"
        /\ last.op = "list"
        /\ Len(log) = Len(served)
        /\ \A p \in 1..Len(log) : log[p].op = "list"
        /\ i = 0
        /\ fetched = <<>> /\ generated = <<>> /\ patches = <<>> /\ files = <<>>

\* the second page fails after a first page of entries
C8_Witness ==
    /\ Len(served) = 2
    /\ served[1].data # <<>>
    /\ served[2].status >= 400
    /\ pc = "aborted"

Tokens(text) == {text[j] : j \in 1..Len(text)}

\* the entries of mapping m that sort before entry j: more bytes, or as many
\* bytes and listed earlier
Ahead(m, j) ==
    {k \in 1..Len(m) :
        \/ m[k].bytes > m[j].bytes
        \/ m[k].bytes = m[j].bytes /\ k < j}

\* C9: in summary mode a failing model runner makes generate_project_summary
\* return a fallback text that holds the repository name and the top three
\* languages ("Unknown" for an empty mapping), and the repository is in the
\* report with that text as its summary.
C9_SummaryFallback ==
    InReportMode =>
        \A g \in 1..Len(generated) :
            generated[g].failed =>
                \E p \in 1..Len(repos_with_readme) :
                    LET proj == repos_with_readme[p]
                        m == proj.languages
                        text == generated[g].text
                    IN  /\ proj.name = repos[generated[g].repo].name
                        /\ proj.ai_summary = text
                        /\ proj.name \in Tokens(text)
                        /\ m = <<>> => "Unknown" \in Tokens(text)
                        /\ \A j \in 1..Len(m) :
                               m[j].lang \in Tokens(text)
                                   <=> Cardinality(Ahead(m, j)) < 3
                        /\ files # <<>> =>
                               \E k \in 1..Len(files[1].sections) :
                                   /\ files[1].sections[k].name = proj.name
                                   /\ files[1].sections[k].ai_summary = text

\* a written report holding a fallback summary of a repository with four
\* languages and one of a repository with none
C9_Witness ==
    /\ ReportWritten
    /\ \E g, h \in 1..Len(generated) :
        /\ generated[g].failed /\ generated[h].failed
        /\ \E p, q \in 1..Len(repos_with_readme) :
            /\ repos_with_readme[p].name = repos[generated[g].repo].name
            /\ Len(repos_with_readme[p].languages) = 4
            /\ repos_with_readme[q].name = repos[generated[h].repo].name
            /\ repos_with_readme[q].languages = <<>>

PatchEvents == {p \in 1..Len(log) : log[p].op = "patch"}

\* the write request that log entry p records
PatchOf(p) == patches[Cardinality({q \in PatchEvents : q <= p})]

\* C10: in description mode every successful write (status 200) is followed
\* by a sleep of 2 seconds before any request for a later repository.
C10_SleepAfterWrite ==
    InDescriptionMode =>
        /\ Cardinality(PatchEvents) = Len(patches)
        /\ \A p \in PatchEvents :
            PatchOf(p).status = 200 =>
                IF p = Len(log) THEN pc = "sleep" /\ i = PatchOf(p).repo
                ELSE log[p + 1] = [op |-> "sleep", arg |-> 2]

\* a successful write, its sleep, then the readme request of the next
\* repository
C10_Witness ==
    /\ InDescriptionMode
    /\ \E p \in PatchEvents :
        /\ PatchOf(p).status = 200
        /\ p + 2 <= Len(log)
        /\ log[p + 1] = [op |-> "sleep", arg |-> 2]
        /\ log[p + 2] = [op |-> "readme", arg |-> PatchOf(p).repo + 1]

Missing(v) == v = None \/ v = Some("")

StartedUp == pc # "startup"

\* C11 as stated: in each script start-up aborts if and only if the account
\* token or the account username is missing (unset or empty).
C11_Original ==
    StartedUp =>
        (pc = "config_error"
            <=> Missing(env.GITHUB_TOKEN) \/ Missing(env.GITHUB_USERNAME))

\* C11 amended: start-up aborts, before any request, if and only if the
\* token or the username is missing or, in automate.py, the hosted API key
\* is missing; in the other two scripts the key is not read, and the model
\* name is optional and falls back to the fixed default.
C11_Startup ==
    StartedUp =>
        /\ pc = "config_error" <=>
               \/ Missing(env.GITHUB_TOKEN)
               \/ Missing(env.GITHUB_USERNAME)
               \/ script = "automate" /\ Missing(env.OPENAI_API_KEY)
        /\ pc = "config_error" => log = <<>> /\ served = <<>>
        /\ script # "automate" /\ env.OLLAMA_MODEL = None =>
               config.OLLAMA_MODEL = <<"llama3.2:latest">>

\* automate.py with token and username set and no API key: aborted
C11_Witness ==
    /\ script = "automate"
    /\ pc = "config_error"
    /\ env.GITHUB_TOKEN = Some("value")
    /\ env.GITHUB_USERNAME = Some("value")
    /\ env.OPENAI_API_KEY = None
    /\ log = <<>>

\* the first line of the backend's stripped output
OutputFirstLine == FirstLine(Strip(last.text))

\* C12: in description mode, for both backends, the description returned by
\* generate_description holds no newline and is the first line of the
\* backend's output or a truncated prefix of it followed by "...".
C12_FirstLineOnly ==
    InDescriptionMode /\ last.op = "generate" /\ last.kind = "ok" =>
        /\ "\n" \notin Tokens(new_description)
        /\ \/ new_description = OutputFirstLine
           \/ \E m \in 0..Len(OutputFirstLine) :
                  new_description = SubSeq(OutputFirstLine, 1, m) \o <<".", ".", ".">>

LanguagesReturned == InReportMode /\ last.op = "languages"

\* C13: get_repo_languages returns the empty mapping for every status other
\* than 200, without raising, and the service's mapping unchanged for 200.
C13_Languages ==
    LanguagesReturned =>
        /\ pc = "summarize"
        /\ last.status # 200 => languages = <<>>
        /\ last.status = 200 => languages = last.text

\* a 403 answer that carries a mapping: the empty mapping is returned
C13_Witness ==
    /\ LanguagesReturned
    /\ last.status = 403
    /\ last.text # <<>>
    /\ languages = <<>>

\* C14: generate_markdown_report applied to the empty list gives a document
\* whose "Total Documented Projects" and "Total Projects with Documentation"
\* read 0, whose Total Stars and Total Forks read 0, and with no section.
C14_EmptyReport ==
    pc = "rendered" /\ repos_with_readme = <<>> =>
        /\ report.documented = 0
        /\ report.with_documentation = 0
        /\ report.total_stars = 0
        /\ report.total_forks = 0
        /\ Len(report.sections) = 0

\* the document rendered from the empty list
C14_Witness ==
    /\ pc = "rendered"
    /\ repos_with_readme = <<>>
    /\ report.sections = <<>>

ReadmeFailed ==
    last.op = "readme" /\ last.status # 404 /\ last.status >= 400

\* C15: a readme fetch for the k-th repository answered with a non-success
\* status other than 404 aborts the batch: nothing is fetched, generated or
\* written for a later repository, the writes already made for earlier
\* repositories stand, and in report mode no report file is written.
C15_FetchFailureAborts ==
    ReadmeFailed =>
        /\ pc = "aborted"
        /\ Last(log) = [op |-> "readme", arg |-> i]
        /\ \A e \in 1..Len(log) :
            /\ log[e].op = "readme" => log[e].arg <= i
            /\ log[e].op \in {"languages", "generate", "patch"} => log[e].arg < i
            /\ log[e].op # "write_file"
        /\ Len(fetched) < i /\ Len(generated) < i
        /\ files = <<>> /\ report = NoReport
        /\ Cardinality(PatchEvents) = Len(patches)
        /\ \A p \in 1..Len(patches) :
            /\ patches[p].repo < i
            /\ patches[p].payload.description = generated[patches[p].repo].text

\* the fetch for the second repository fails after the first was written
C15_Witness ==
    /\ ReadmeFailed
    /\ InDescriptionMode
    /\ i = 2
    /\ Len(repos) >= 2
    /\ Len(patches) = 1
    /\ patches[1].status = 200

WriteEvents == {e \in 1..Len(log) : log[e].op = "write_file"}

\* C16: in report mode the report file is written at most once per run, only
\* after every listed repository has been fetched and summarized and never
\* between repositories, and not at all when no listed repository has a
\* non-empty readme (an empty listing included).
C16_WriteOnce ==
    InReportMode =>
        /\ Len(files) <= 1
        /\ Cardinality(WriteEvents) = Len(files)
        /\ files # <<>> =>
            /\ pc = "done"
            /\ WriteEvents = {Len(log)}
            /\ Len(fetched) = Len(repos)
            /\ \A k \in 1..Len(repos) :
                /\ \E e \in 1..(Len(log) - 1) : log[e] = Event("readme", k)
                /\ Included(k) =>
                       \E e \in 1..(Len(log) - 1) : log[e] = Event("generate", k)
        /\ (pc = "done" /\ ~ \E k \in 1..Len(repos) : Included(k)) =>
               files = <<>>

\* the file exists once two repositories have both been fetched and summarized
C16_Witness ==
    /\ ReportWritten
    /\ Len(files) = 1
    /\ Len(repos) = 2
    /\ Included(1) /\ Included(2)

\* the run ends without a file: repositories were listed, none had a readme
C16_WitnessNone ==
    /\ InReportMode
    /\ pc = "done"
    /\ Len(repos) = 2
    /\ files = <<>>

\* C17: the sections of the report are in the order of the sort of
\* github_summarizer.main, not in listing order: of two consecutive sections
\* the first has more stars, or as many stars and an update time at least as
\* late; the section numbers 1..n follow that order.
C17_SectionOrder ==
    ReportWritten =>
        LET sec == files[1].sections
        IN  /\ \A k \in 1..Len(sec) : sec[k].number = k
            /\ \A k \in 1..(Len(sec) - 1) :
                \/ sec[k].stargazers_count > sec[k + 1].stargazers_count
                \/ /\ sec[k].stargazers_count = sec[k + 1].stargazers_count
                   /\ sec[k].updated_at >= sec[k + 1].updated_at

\* two repositories with equal stars: the one listed second was updated
\* later and is section 1
C17_Witness ==
    /\ ReportWritten
    /\ Len(files[1].sections) = 2
    /\ files[1].sections[1].name = repos[2].name
    /\ files[1].sections[1].number = 1
    /\ repos[1].stargazers_count = repos[2].stargazers_count
    /\ repos[1].updated_at < repos[2].updated_at

\* two repositories listed in ascending order of stars change places
C17_WitnessStars ==
    /\ ReportWritten
    /\ Len(files[1].sections) = 2
    /\ files[1].sections[1].name = repos[2].name
    /\ repos[1].stargazers_count < repos[2].stargazers_count

====
